---- MODULE Spec2Model ----
(***************************************************************************)
(* CoCoNet: coverage windowing (tools.avg_window, tools.get_coverage),     *)
(* k-mer composition (tools.get_kmer_number, tools.get_kmer_frequency)     *)
(* and the stage driver (coconet.main, make_train_test, learn, cluster).   *)
(***************************************************************************)
EXTENDS Integers, Sequences, FiniteSets, TLC

(***************************************************************************)
(* Bounds of the model.                                                    *)
(***************************************************************************)
MaxLen == 4      \* longest coverage vector handed to avg_window
MaxWsize == 3    \* largest window_size
MaxWstep == 2    \* largest window_step
MaxPairs == 2    \* most pairs in a batch of get_coverage
MaxSeqLen == 4   \* longest nucleotide sequence
MaxK == 2        \* largest k of a k-mer
MaxCtg == 4      \* most contigs in the assembly

VARIABLES
    \* a call of tools.avg_window
    x_in,           \* the coverage vector x (per-base read depths)
    wsize,          \* cfg.wsize, passed as window_size
    wstep,          \* cfg.wstep, passed as window_step
    contracted,     \* the build contracts multiply-add into one rounding
    w_pc,           \* "call", "returned" or "raised"
    x_out,          \* what the call returned or raised
    \* a call of tools.get_coverage
    pairs,          \* the batch: a sequence of <<fragment, fragment>>
    c_pc,           \* "idle", "loop", "returned" or "raised"
    c_err,          \* the exception of a call that raised
    flat,           \* pairs after np.concatenate (line 60)
    sorted_idx,     \* np.argsort(pairs['sp']), 0-based
    coverage_feature,
    seen,           \* the memo: (species, start) -> windowed coverage
    c_i,            \* the loop's i: fragments processed so far
    computed,       \* keys whose windowing this call computed, in order
    \* a call of tools.get_kmer_frequency
    sequence_in,    \* the nucleotide sequence
    kmer,           \* cfg.kmer: kmer_list is [kmer]
    rc_in,          \* rc
    norm_in,        \* norm
    k_pc,           \* "call" or "returned"
    frequencies,    \* the vector returned
    \* a run of coconet.main, or a direct call of coconet.learn
    entry,          \* "main" or "learn": the function the caller called
    action,         \* params['action']
    features,       \* cfg.features
    has_bam,        \* 'bam' in cfg.io
    files,          \* the files of cfg.io that exist
    io_filt_fasta,  \* the file cfg.io['filt_fasta'] names
    todo,           \* the calls main has still to make
    m_pc,           \* where the run is
    m_err,          \* the exception that ended it
    log,            \* calls and returns so far
    n_ctg,          \* make_train_test: len(assembly)
    test_ratio,     \* cfg.test_ratio as <<numerator, denominator>>
    assembly_idx,   \* make_train_test: the split
    learn_entry,    \* the files when learn was entered
    cluster_entry   \* the files when cluster was entered

w_vars == <<x_in, w_pc, x_out>>
cfg_vars == <<wsize, wstep, contracted>>
c_vars == <<pairs, c_pc, c_err, flat, sorted_idx, coverage_feature, seen, c_i, computed>>
k_vars == <<sequence_in, kmer, rc_in, norm_in, k_pc, frequencies>>
m_vars == <<entry, action, features, has_bam, files, io_filt_fasta, todo, m_pc,
           m_err, log, n_ctg, test_ratio, assembly_idx, learn_entry, cluster_entry>>
vars == <<w_vars, cfg_vars, c_vars, k_vars, m_vars>>

(***************************************************************************)
(* Each part of the program at rest: a specification that exercises one    *)
(* part leaves the others like this.                                       *)
(***************************************************************************)
NoResult == [ok |-> FALSE, err |-> "pending", val |-> <<>>]

WIdle ==
    /\ x_in = <<>>
    /\ w_pc = "idle"
    /\ x_out = NoResult

EmptyDict == [k \in {} |-> <<>>]

CIdle ==
    /\ pairs = <<>>
    /\ c_pc = "idle"
    /\ c_err = ""
    /\ flat = <<>>
    /\ sorted_idx = <<>>
    /\ coverage_feature = <<>>
    /\ seen = EmptyDict
    /\ c_i = 0
    /\ computed = <<>>

KIdle ==
    /\ sequence_in = <<>>
    /\ kmer = 0
    /\ rc_in = FALSE
    /\ norm_in = FALSE
    /\ k_pc = "idle"
    /\ frequencies = <<>>

NoSplit == [test |-> <<>>, train |-> {}]
NoEntry == [entered |-> FALSE, files |-> {}, fasta |-> ""]

MIdle ==
    /\ entry = "none"
    /\ action = ""
    /\ features = {}
    /\ has_bam = FALSE
    /\ files = {}
    /\ io_filt_fasta = "filt_fasta"
    /\ todo = <<>>
    /\ m_pc = "idle"
    /\ m_err = ""
    /\ log = <<>>
    /\ n_ctg = 0
    /\ test_ratio = <<0, 1>>
    /\ assembly_idx = NoSplit
    /\ learn_entry = NoEntry
    /\ cluster_entry = NoEntry

(***************************************************************************)
(* IEEE-754 binary arithmetic on non-negative values.  numpy computes      *)
(* avg_window in float64 and get_coverage stores float32.  A value is a    *)
(* record [m, e] standing for m * 2^e, where m is a natural number written *)
(* in base 2^15 (least significant limb first, no leading zero limb) that  *)
(* is either zero (no limb, e = 0) or odd, so that equal values are equal  *)
(* records.  The exponent range is not modelled: every value of the model  *)
(* is far from overflow and underflow.                                     *)
(***************************************************************************)
DoublePrec == 53
SinglePrec == 24
LimbBits == 15
Base == 2^LimbBits

MinOf(a, b) == IF a <= b THEN a ELSE b
MaxOf(a, b) == IF a >= b THEN a ELSE b

RECURSIVE NatToLimbs(_)
NatToLimbs(n) == IF n = 0 THEN <<>> ELSE <<n % Base>> \o NatToLimbs(n \div Base)

RECURSIVE LimbsToNat(_)
LimbsToNat(a) == IF a = <<>> THEN 0 ELSE Head(a) + Base * LimbsToNat(Tail(a))

LTrim(a) ==
    IF \A i \in 1..Len(a) : a[i] = 0 THEN <<>>
    ELSE SubSeq(a, 1, CHOOSE i \in 1..Len(a) :
                          a[i] # 0 /\ \A j \in (i + 1)..Len(a) : a[j] = 0)

Limb(a, i) == IF i >= 1 /\ i <= Len(a) THEN a[i] ELSE 0

RECURSIVE LAddFrom(_, _, _, _)
LAddFrom(a, b, i, carry) ==
    IF i > Len(a) /\ i > Len(b)
    THEN IF carry = 0 THEN <<>> ELSE <<carry>>
    ELSE LET s == Limb(a, i) + Limb(b, i) + carry
         IN  <<s % Base>> \o LAddFrom(a, b, i + 1, s \div Base)

LAdd(a, b) == LAddFrom(a, b, 1, 0)

\* a * d + c for a digit d and a carry c
RECURSIVE LMulDigitFrom(_, _, _, _)
LMulDigitFrom(a, d, i, carry) ==
    IF i > Len(a)
    THEN IF carry = 0 THEN <<>> ELSE <<carry>>
    ELSE LET s == a[i] * d + carry
         IN  <<s % Base>> \o LMulDigitFrom(a, d, i + 1, s \div Base)

RECURSIVE LMulFrom(_, _, _)
LMulFrom(a, b, j) ==
    IF j > Len(b) THEN <<>>
    ELSE LAdd(LMulDigitFrom(a, b[j], 1, 0), <<0>> \o LMulFrom(a, b, j + 1))

LMul(a, b) == LTrim(LMulFrom(a, b, 1))

\* a * 2^k
LShl(a, k) ==
    LET q == k \div LimbBits
        r == k % LimbBits
    IN  LTrim([i \in 1..(Len(a) + q + 1) |->
                 IF i <= q THEN 0
                 ELSE ((Limb(a, i - q) * 2^r) % Base)
                      + (Limb(a, i - q - 1) \div 2^(LimbBits - r))])

\* floor(a / 2^k)
LShr(a, k) ==
    LET q == k \div LimbBits
        r == k % LimbBits
    IN  LTrim([i \in 1..MaxOf(Len(a) - q, 0) |->
                 (Limb(a, i + q) \div 2^r)
                 + (Limb(a, i + q + 1) % 2^r) * 2^(LimbBits - r)])

\* the number of bits of a digit, and of a trimmed number
DigitLen(d) == CHOOSE k \in 0..LimbBits : d < 2^k /\ (k = 0 \/ d >= 2^(k - 1))
BitLen(a) == IF a = <<>> THEN 0 ELSE LimbBits * (Len(a) - 1) + DigitLen(a[Len(a)])

\* bit i of a, bit 0 the least significant
Bit(a, i) == (Limb(a, (i \div LimbBits) + 1) \div 2^(i % LimbBits)) % 2

\* the number of trailing zero bits of a trimmed a # 0
TrailingZeros(a) ==
    LET i == CHOOSE n \in 1..Len(a) : a[n] # 0 /\ \A j \in 1..(n - 1) : a[j] = 0
        r == CHOOSE k \in 0..(LimbBits - 1) :
                 a[i] % 2^(k + 1) # 0 /\ a[i] % 2^k = 0
    IN  LimbBits * (i - 1) + r

\* a < b on trimmed numbers
LLess(a, b) ==
    IF Len(a) # Len(b) THEN Len(a) < Len(b)
    ELSE \E i \in 1..Len(a) :
             a[i] < b[i] /\ \A j \in (i + 1)..Len(a) : a[j] = b[j]

FZero == [m |-> <<>>, e |-> 0]

Norm(m, e) ==
    IF m = <<>> THEN FZero
    ELSE LET tz == TrailingZeros(m) IN [m |-> LShr(m, tz), e |-> e + tz]

FromInt(n) == Norm(NatToLimbs(n), 0)

\* the common exponent two values are compared or added at
CommonExp(p, q) ==
    IF p.m = <<>> THEN q.e ELSE IF q.m = <<>> THEN p.e ELSE MinOf(p.e, q.e)

\* the mantissa of p at exponent e <= p.e
Align(p, e) == IF p.m = <<>> THEN <<>> ELSE LShl(p.m, p.e - e)

ExactAdd(p, q) ==
    LET e == CommonExp(p, q)
    IN  Norm(LTrim(LAdd(Align(p, e), Align(q, e))), e)

ExactMul(p, q) == Norm(LMul(p.m, q.m), p.e + q.e)

FLess(p, q) ==
    LET e == CommonExp(p, q)
    IN  LLess(Align(p, e), Align(q, e))

FLeq(p, q) == ~FLess(q, p)

\* round to nearest, ties to even, at prec significant bits
Round(p, prec) ==
    LET drop == BitLen(p.m) - prec
    IN  IF drop <= 0 THEN p
        ELSE LET kept == LShr(p.m, drop)
                 guard == Bit(p.m, drop - 1)
                 sticky == drop >= 2     \* the lowest bit of p.m is 1
                 up == guard = 1 /\ (sticky \/ Bit(kept, 0) = 1)
             IN  Norm(IF up THEN LAdd(kept, <<1>>) ELSE kept, p.e + drop)

\* long division by a digit w, from the most significant limb i down:
\* <<quotient, remainder>>
RECURSIVE LDivDigit(_, _, _, _)
LDivDigit(a, w, i, rem) ==
    IF i = 0 THEN <<<<>>, rem>>
    ELSE LET cur == rem * Base + a[i]
             rest == LDivDigit(a, w, i - 1, cur % w)
         IN  <<rest[1] \o <<cur \div w>>, rest[2]>>

\* float64 a / w for integers a >= 0 and 1 <= w < Base (both exact in float64)
FDivInt(a, w) ==
    LET t == DoublePrec + 2 + LimbBits
        num == LShl(NatToLimbs(a), t)
        d == LDivDigit(num, w, Len(num), 0)
        sticky == IF d[2] = 0 THEN 0 ELSE 1
    IN  Round(Norm(LTrim(LAdd(LShl(LTrim(d[1]), 1), <<sticky>>)), 0 - (t + 1)), DoublePrec)

FMul(p, q) == Round(ExactMul(p, q), DoublePrec)
FAdd(p, q) == Round(ExactAdd(p, q), DoublePrec)
\* fused multiply-add: one rounding
FMA(p, q, acc) == Round(ExactAdd(ExactMul(p, q), acc), DoublePrec)
ToFloat32(p) == Round(p, SinglePrec)

\* int(p) for p >= 0: truncation
Trunc(p) ==
    IF p.m = <<>> THEN 0
    ELSE IF p.e >= 0 THEN LimbsToNat(LShl(p.m, p.e))
    ELSE LimbsToNat(LShr(p.m, 0 - p.e))

(***************************************************************************)
(* tools.avg_window.  np.convolve(a, v, "valid") swaps its arguments when  *)
(* v is the longer one, raises ValueError on an empty argument, and        *)
(* returns max(len) - min(len) + 1 dot products, each accumulated from 0   *)
(* in index order.  Whether the compiled loop rounds the product before    *)
(* adding it (multiply, then add) or not (fused multiply-add) depends on   *)
(* the build: fused is that choice.                                        *)
(***************************************************************************)
Raise(err) == [ok |-> FALSE, err |-> err, val |-> <<>>]
Return(v) == [ok |-> TRUE, err |-> "", val |-> v]

\* one step of the accumulation: acc + x * k
MulAdd(acc, x, k, fused) ==
    IF fused THEN FMA(x, k, acc) ELSE FAdd(acc, FMul(x, k))

\* F(x) with x evaluated once, before F is applied
Strict(F(_), x) == CHOOSE r \in {F(y) : y \in {x}} : TRUE

RECURSIVE Dot(_, _, _, _, _, _)
Dot(a, off, v, k, acc, fused) ==
    IF k > Len(v) THEN acc
    ELSE Strict(LAMBDA nxt : Dot(a, off, v, k + 1, nxt, fused),
                MulAdd(acc, a[off + k], v[k], fused))

\* the elements of a sequence-valued expression, evaluated once
Seq1(f) == f \o <<>>

Reverse(s) == Seq1([i \in 1..Len(s) |-> s[Len(s) + 1 - i]])

Correlate(a, v, fused) ==
    Seq1([n \in 1..(Len(a) - Len(v) + 1) |-> Dot(a, n - 1, v, 1, FZero, fused)])

ConvolveValid(big, small, fused) ==
    IF Len(big) = 0 \/ Len(small) = 0 THEN Raise("ValueError")
    ELSE Return(Correlate(big, Reverse(small), fused))

Convolve(a, v, fused) ==
    IF Len(v) > Len(a) THEN ConvolveValid(v, a, fused)
    ELSE ConvolveValid(a, v, fused)

\* ceil(a / b) for b >= 1, as math.ceil of the true quotient
CeilDiv(a, b) == 0 - ((0 - a) \div b)

\* a decimation that drops the last, partial stride
DecimateFloor(y, step) ==
    Seq1([i \in 1..(Len(y) \div step) |-> y[(i - 1) * step + 1]])

\* y[::step]
Decimate(y, step) ==
    Seq1([i \in 1..CeilDiv(Len(y), step) |-> y[(i - 1) * step + 1]])

Fill(n, v) == Seq1([i \in 1..n |-> v])

\* a kernel left unnormalised: np.ones(window_size)
KernelOnes(window_size) == Fill(window_size, FromInt(1))

\* np.ones(window_size) / window_size
Kernel(window_size) == Fill(window_size, FDivInt(1, window_size))

ToFloats(x) == Seq1([i \in 1..Len(x) |-> FromInt(x[i])])

DecimateResult(x_conv, window_step) ==
    IF x_conv.ok THEN Return(Decimate(x_conv.val, window_step)) ELSE x_conv

avg_window(x, window_size, window_step, fused) ==
    DecimateResult(Convolve(ToFloats(x), Kernel(window_size), fused), window_step)

\* conv_shape of get_coverage: ceil((frag_len-window_size+1)/window_step)
conv_shape(frag_len, window_size, window_step) ==
    CeilDiv(frag_len - window_size + 1, window_step)

(***************************************************************************)
(* tools.get_coverage.  The coverage file holds two contigs and two        *)
(* samples; every fragment has the run's fragment length FragLen.          *)
(***************************************************************************)
FragLen == MaxLen - 1
Contigs == <<"a", "b">>            \* in the order of their names
h5data ==
    [ctg \in {"a", "b"} |->
        IF ctg = "a"
        THEN << [p \in 1..(FragLen + 1) |-> p], [p \in 1..(FragLen + 1) |-> 2 * p + 1] >>
        ELSE << [p \in 1..FragLen |-> 7], [p \in 1..FragLen |-> (p * p) % 5] >>]

Fragment(sp, start) == [sp |-> sp, start |-> start, end |-> start + FragLen]
Fragments ==
    {Fragment(sp, start) : sp \in {"a", "b"}, start \in 0..1} \ {Fragment("b", 1)}
Batches == UNION {[1..n -> Fragments \X Fragments] : n \in 0..MaxPairs}

Ord(sp) == CHOOSE n \in 1..Len(Contigs) : Contigs[n] = sp

\* np.concatenate([pairs[:, 0], pairs[:, 1]])
Concatenate(batch) ==
    Seq1([k \in 1..(2 * Len(batch)) |->
            IF k <= Len(batch) THEN batch[k][1] ELSE batch[k - Len(batch)][2]])

\* np.argsort(pairs['sp']), 0-based.  numpy sorts an array of 16 elements
\* or fewer by insertion, which keeps equal keys in their order.
ArgSort(frags) ==
    LET n == Len(frags)
        rank(j) == Cardinality({k \in 1..n : Ord(frags[k].sp) < Ord(frags[j].sp)})
                   + Cardinality({k \in 1..(j - 1) : frags[k].sp = frags[j].sp})
    IN  Seq1([r \in 1..n |-> (CHOOSE j \in 1..n : rank(j) = r - 1) - 1])

\* row[start:end]
Slice(row, start, end) == SubSeq(row, start + 1, MinOf(end, Len(row)))

\* np.apply_along_axis(lambda x: avg_window(x, ...), 1, track[:, start:end])
ApplyAlongAxis(track, start, end, window_size, window_step, fused) ==
    LET rows == Seq1([s \in 1..Len(track) |->
                        avg_window(Slice(track[s], start, end),
                                   window_size, window_step, fused)])
    IN  IF \E s \in 1..Len(rows) : ~rows[s].ok THEN Raise("ValueError")
        ELSE Return(Seq1([s \in 1..Len(rows) |-> rows[s].val]))

Key(frag) == [sp |-> frag.sp, start |-> frag.start]

\* a memo that forgets to store: line 81 left out
SeenStoreNothing(d, key, cov_sp) == d

\* seen[(species, start)] = cov_sp
SeenStore(d, key, cov_sp) ==
    [k \in DOMAIN d \cup {key} |-> IF k = key THEN cov_sp ELSE d[k]]

\* a row index that ignores the sort: coverage_feature[i]
TargetRowUnsorted(idx, k) == k

\* sorted_idx[i], 0-based
TargetRow(idx, k) == idx[k + 1]

\* coverage_feature[row] = cov_sp: a float32 row of n_samples x shape values;
\* numpy broadcasts a single column and refuses any other width
CanAssign(cov_sp, shape) ==
    \A s \in 1..Len(cov_sp) : Len(cov_sp[s]) = shape \/ Len(cov_sp[s]) = 1

Assigned(cov_sp, shape) ==
    Seq1([s \in 1..Len(cov_sp) |->
            Seq1([c \in 1..shape |->
                    ToFloat32(IF Len(cov_sp[s]) = shape THEN cov_sp[s][c]
                              ELSE cov_sp[s][1])])])

ZeroRow(n_samples, shape) == Fill(n_samples, Fill(shape, FZero))

CRaise(err) ==
    /\ c_pc' = "raised"
    /\ c_err' = err

\* lines 51-67: everything before the loop
GetCoverageCall ==
    /\ c_pc = "idle"
    /\ \E batch \in Batches :
        /\ pairs' = batch
        /\ computed' = <<>>
        /\ c_i' = 0
        /\ seen' = EmptyDict
        /\ IF Len(batch) = 0
           THEN \* list(coverage_data.values())[0] of an empty dict
                /\ CRaise("IndexError")
                /\ flat' = <<>> /\ sorted_idx' = <<>> /\ coverage_feature' = <<>>
           ELSE LET frag_len == batch[1][1].end - batch[1][1].start
                    shape == conv_shape(frag_len, wsize, wstep)
                    n_samples == Len(h5data[batch[1][1].sp])
                IN  /\ flat' = Concatenate(batch)
                    /\ sorted_idx' = ArgSort(flat')
                    /\ IF shape < 0
                       THEN \* np.zeros of a negative dimension
                            /\ CRaise("ValueError")
                            /\ coverage_feature' = <<>>
                       ELSE /\ coverage_feature' =
                                  Fill(2 * Len(batch), ZeroRow(n_samples, shape))
                            /\ c_pc' = "loop"
                            /\ c_err' = ""
    /\ UNCHANGED <<w_vars, cfg_vars, k_vars, m_vars>>

\* lines 81-83 for the row cov_sp, looked up (hit) or just computed
StoreRow(row, key, hit, cov_sp, shape) ==
    /\ seen' = IF hit THEN seen ELSE SeenStore(seen, key, cov_sp)
    /\ computed' = IF hit THEN computed ELSE Append(computed, key)
    /\ IF CanAssign(cov_sp, shape)
       THEN /\ coverage_feature' =
                  [coverage_feature EXCEPT ![row + 1] = Assigned(cov_sp, shape)]
            /\ c_i' = c_i + 1
            /\ UNCHANGED <<c_pc, c_err>>
       ELSE /\ CRaise("ValueError")
            /\ UNCHANGED <<coverage_feature, c_i>>

\* lines 75-80 on a miss: fresh is what np.apply_along_axis gave
StoreFresh(row, key, fresh, shape) ==
    IF fresh.ok THEN StoreRow(row, key, FALSE, fresh.val, shape)
    ELSE /\ CRaise(fresh.err)
         /\ UNCHANGED <<coverage_feature, seen, c_i, computed>>

\* lines 69-83 for the fragment frag, to be written at row
ProcessFragment(row, frag, shape) ==
    IF Key(frag) \in DOMAIN seen
    THEN StoreRow(row, Key(frag), TRUE, seen[Key(frag)], shape)
    ELSE StoreFresh(row, Key(frag),
                    ApplyAlongAxis(h5data[frag.sp], frag.start, frag.end,
                                   wsize, wstep, contracted),
                    shape)

\* lines 69-83: one iteration of the loop
GetCoverageStep ==
    /\ c_pc = "loop"
    /\ c_i < Len(flat)
    /\ ProcessFragment(TargetRow(sorted_idx, c_i),
                       flat[sorted_idx[c_i + 1] + 1],
                       Len(coverage_feature[1][1]))
    /\ UNCHANGED <<pairs, flat, sorted_idx, w_vars, cfg_vars, k_vars, m_vars>>

\* lines 85-86
GetCoverageReturn ==
    /\ c_pc = "loop"
    /\ c_i = Len(flat)
    /\ c_pc' = "returned"
    /\ UNCHANGED <<pairs, c_err, flat, sorted_idx, coverage_feature, seen, c_i,
                   computed, w_vars, cfg_vars, k_vars, m_vars>>

\* the two arrays of a call that returned
FirstRows == SubSeq(coverage_feature, 1, Len(pairs))
SecondRows == SubSeq(coverage_feature, Len(pairs) + 1, 2 * Len(pairs))

\* the caller is back and may load its next batch; the locals of the call
\* that ended are out of reach (the dict seen among them)
GetCoverageDone ==
    /\ c_pc \in {"returned", "raised"}
    /\ c_pc' = "idle"
    /\ c_err' = ""
    /\ pairs' = <<>> /\ flat' = <<>> /\ sorted_idx' = <<>>
    /\ coverage_feature' = <<>> /\ c_i' = 0 /\ computed' = <<>>
    /\ UNCHANGED <<seen, w_vars, cfg_vars, k_vars, m_vars>>

\* the smallest and the largest window and step; SpecWindow has them all
InitCoverage ==
    /\ wsize \in {1, MaxWsize}
    /\ wstep \in {1, MaxWstep}
    /\ contracted \in BOOLEAN
    /\ WIdle
    /\ CIdle
    /\ KIdle
    /\ MIdle

NextCoverage ==
    \/ GetCoverageCall
    \/ GetCoverageStep
    \/ GetCoverageReturn
    \/ GetCoverageDone

SpecCoverage == InitCoverage /\ [][NextCoverage]_vars

(***************************************************************************)
(* Calls of avg_window on every vector of read depths up to MaxLen.        *)
(***************************************************************************)
Depths == {0, 1, 7}
Vectors == UNION {[1..n -> Depths] : n \in 0..MaxLen}

InitWindow ==
    /\ x_in \in Vectors
    /\ wsize \in 1..MaxWsize
    /\ wstep \in 1..MaxWstep
    /\ contracted \in BOOLEAN
    /\ w_pc = "call"
    /\ x_out = NoResult
    /\ CIdle
    /\ KIdle
    /\ MIdle

AvgWindowCall ==
    /\ w_pc = "call"
    /\ x_out' = avg_window(x_in, wsize, wstep, contracted)
    /\ w_pc' = IF x_out'.ok THEN "returned" ELSE "raised"
    /\ UNCHANGED <<x_in, cfg_vars, c_vars, k_vars, m_vars>>

NextWindow == AvgWindowCall

SpecWindow == InitWindow /\ [][NextWindow]_vars

(***************************************************************************)
(* tools.get_kmer_number and tools.get_kmer_frequency.                     *)
(***************************************************************************)
\* KMER_CODES: 'A': '00', 'C': '01', 'G': '10', 'T': '11'
KMER_CODES == [c \in {"A", "C", "G", "T"} |->
                  CASE c = "A" -> 0 [] c = "C" -> 1 [] c = "G" -> 2 [] c = "T" -> 3]

\* int(kmer_encoding[i:i+2*k], 2) for the k-mer that starts at position at
RECURSIVE KmerIndex(_, _, _)
KmerIndex(sequence, at, k) ==
    IF k = 0 THEN 0
    ELSE 4 * KmerIndex(sequence, at, k - 1) + KMER_CODES[sequence[at + k - 1]]

get_kmer_number(sequence, k) ==
    Seq1([n \in 1..(Len(sequence) - k + 1) |-> KmerIndex(sequence, n, k)])

\* np.bincount(kmer_indices, minlength=minlength)
Bincount(kmer_indices, minlength) ==
    Seq1([b \in 1..minlength |->
            Cardinality({n \in 1..Len(kmer_indices) : kmer_indices[n] = b - 1})])

RECURSIVE SumSeq(_)
SumSeq(v) == IF v = <<>> THEN 0 ELSE Head(v) + SumSeq(Tail(v))

\* freq_k += freq_k[::-1]; freq_k = freq_k[:int(4**k/2)]
FoldReverse(freq_k) ==
    Seq1([b \in 1..(Len(freq_k) \div 2) |-> freq_k[b] + freq_k[Len(freq_k) + 1 - b]])

\* freq_k / np.sum(freq_k)
Normalize(freq_k, total) == Seq1([b \in 1..Len(freq_k) |-> FDivInt(freq_k[b], total)])

\* one k of kmer_list: lines 33-44
FreqK(sequence, k, rc, norm) ==
    LET counts == Bincount(get_kmer_number(sequence, k), 4^k)
        freq_k == IF rc THEN FoldReverse(counts) ELSE counts
    IN  IF norm THEN Normalize(freq_k, SumSeq(freq_k)) ELSE freq_k

\* the blocks of kmer_list one after the other (output_sizes, line 46)
RECURSIVE get_kmer_frequency(_, _, _, _)
get_kmer_frequency(sequence, kmer_list, rc, norm) ==
    IF kmer_list = <<>> THEN <<>>
    ELSE FreqK(sequence, Head(kmer_list), rc, norm)
         \o get_kmer_frequency(sequence, Tail(kmer_list), rc, norm)

InitKmer ==
    /\ kmer \in 1..MaxK
    /\ sequence_in \in UNION {[1..n -> {"A", "C", "G", "T"}] : n \in kmer..MaxSeqLen}
    /\ rc_in \in BOOLEAN
    /\ norm_in \in BOOLEAN
    /\ k_pc = "call"
    /\ frequencies = <<>>
    /\ wsize = 1 /\ wstep = 1 /\ contracted = FALSE
    /\ WIdle
    /\ CIdle
    /\ MIdle

GetKmerFrequencyCall ==
    /\ k_pc = "call"
    /\ frequencies' = get_kmer_frequency(sequence_in, <<kmer>>, rc_in, norm_in)
    /\ k_pc' = "returned"
    /\ UNCHANGED <<sequence_in, kmer, rc_in, norm_in, w_vars, cfg_vars, c_vars, m_vars>>

NextKmer == GetKmerFrequencyCall

SpecKmer == InitKmer /\ [][NextKmer]_vars

(***************************************************************************)
(* coconet.main and the steps it runs.  The functions of other modules     *)
(* (load_model, train, make_pairs, ...) either return, with the files they *)
(* write, or raise.                                                        *)
(***************************************************************************)
Actions == {"preprocess", "learn", "cluster", "run"}
FeatureNames == {"composition", "coverage"}
FileNames == {"filt_fasta", "h5", "pairs_train", "pairs_test",
              "repr_composition", "repr_coverage"}
TestRatios == {<<1, 5>>, <<3, 4>>}

Call(f) == <<"call", f>>
Ret(f) == <<"return", f>>

\* the calls main makes for an action, in order
MainPlanLearnFirst(act) ==
    CASE act = "preprocess" -> <<"preprocess">>
      [] act = "learn" -> <<"learn", "make_train_test">>
      [] act = "cluster" -> <<"cluster">>
      [] OTHER -> <<"preprocess", "make_train_test", "learn", "cluster">>

MainPlan(act) ==
    CASE act = "preprocess" -> <<"preprocess">>
      [] act = "learn" -> <<"make_train_test", "learn">>
      [] act = "cluster" -> <<"cluster">>
      [] OTHER -> <<"preprocess", "make_train_test", "learn", "cluster">>

\* where a function of coconet.py starts
EntryPc(f) ==
    CASE f = "preprocess" -> "preprocess"
      [] f = "make_train_test" -> "mtt_split"
      [] f = "learn" -> "learn_load"
      [] f = "cluster" -> "cluster_load"

MRaise(err) ==
    /\ m_pc' = "error"
    /\ m_err' = err

\* int(cfg.test_ratio * n_ctg), the product taken in float64
IntRatio(ratio, n) == Trunc(FMul(FDivInt(ratio[1], ratio[2]), FromInt(n)))

NCtgForTest(ratio, n) == MaxOf(2, IntRatio(ratio, n))

\* np.random.choice(n, k): k draws from 0..n-1, with replacement
RandomChoice(n, k) == [1..k -> 0..(n - 1)]

Range(s) == {s[j] : j \in 1..Len(s)}

\* np.setdiff1d(range(n), test)
SetDiff1d(n, test) == (0..(n - 1)) \ Range(test)

\* learn: the inputs dictionary, in insertion order
LearnInputs(feats, fasta_path) ==
    (IF "composition" \in feats THEN <<fasta_path>> ELSE <<>>)
    \o (IF "coverage" \in feats THEN <<"h5">> ELSE <<>>)

InputsPresent(inputs, fs) == \A j \in 1..Len(inputs) : inputs[j] \in fs

PairsPresentAny(fs) == \E f \in {"pairs_train", "pairs_test"} : f \in fs

PairsPresent(fs) == \A f \in {"pairs_train", "pairs_test"} : f \in fs

ReprPresent(fs) == \A f \in {"repr_composition", "repr_coverage"} : f \in fs

Snapshot == [entered |-> TRUE, files |-> files, fasta |-> io_filt_fasta]

InitMain ==
    /\ entry \in {"main", "learn"}
    /\ action \in (IF entry = "main" THEN Actions ELSE {"learn"})
    /\ features \in SUBSET FeatureNames
    /\ has_bam \in BOOLEAN
    /\ files \in {fs \cup {"fasta"} : fs \in SUBSET FileNames}
    /\ io_filt_fasta = "filt_fasta"
    /\ todo = IF entry = "main" THEN <<>> ELSE <<"learn">>
    /\ m_pc = IF entry = "main" THEN "start" ELSE "main"
    /\ m_err = ""
    /\ log = <<>>
    /\ n_ctg = 0
    /\ test_ratio \in TestRatios
    /\ assembly_idx = NoSplit
    /\ learn_entry = NoEntry
    /\ cluster_entry = NoEntry
    /\ wsize = 1 /\ wstep = 1 /\ contracted = FALSE
    /\ WIdle
    /\ CIdle
    /\ KIdle

m_const == <<entry, action, features, has_bam, test_ratio,
             w_vars, cfg_vars, c_vars, k_vars>>

\* main: the configuration is written, then the action is looked up
MainStart ==
    /\ m_pc = "start"
    /\ log' = Append(log, Call("to_yaml"))
    /\ todo' = MainPlan(action)
    /\ m_pc' = "main"
    /\ UNCHANGED <<m_const, files, io_filt_fasta, m_err, n_ctg, assembly_idx,
                   learn_entry, cluster_entry>>

\* the caller's next call, or its end
MainNext ==
    /\ m_pc = "main"
    /\ IF todo = <<>>
       THEN /\ m_pc' = "exit"
            /\ UNCHANGED <<todo, log>>
       ELSE /\ m_pc' = EntryPc(Head(todo))
            /\ log' = Append(log, Call(Head(todo)))
            /\ todo' = Tail(todo)
    /\ UNCHANGED <<m_const, files, io_filt_fasta, m_err, n_ctg, assembly_idx,
                   learn_entry, cluster_entry>>

Preprocess ==
    /\ m_pc = "preprocess"
    /\ \E ok \in BOOLEAN :
         IF ok
         THEN /\ files' = files \cup {io_filt_fasta}
                                \cup (IF has_bam THEN {"h5"} ELSE {})
              /\ log' = Append(log, Ret("preprocess"))
              /\ m_pc' = "main"
              /\ UNCHANGED m_err
         ELSE /\ MRaise("Error")
              /\ UNCHANGED <<files, log>>
    /\ UNCHANGED <<m_const, io_filt_fasta, todo, n_ctg, assembly_idx,
                   learn_entry, cluster_entry>>

\* make_train_test up to the split of the contig indices
MakeTrainTestSplit ==
    /\ m_pc = "mtt_split"
    /\ io_filt_fasta' = IF io_filt_fasta \in files THEN io_filt_fasta ELSE "fasta"
    /\ \E n \in 0..MaxCtg :
         /\ n_ctg' = n
         /\ IF n = 0
            THEN /\ MRaise("ValueError")
                 /\ UNCHANGED assembly_idx
            ELSE /\ \E test \in RandomChoice(n, NCtgForTest(test_ratio, n)) :
                      assembly_idx' = [test |-> test, train |-> SetDiff1d(n, test)]
                 /\ m_pc' = "mtt_pairs"
                 /\ UNCHANGED m_err
    /\ UNCHANGED <<m_const, files, todo, log, learn_entry, cluster_entry>>

\* make_train_test: make_pairs for the train set, then for the test set
MakeTrainTestPairs ==
    /\ m_pc = "mtt_pairs"
    /\ \E done \in 0..2 :
         /\ files' = files \cup (IF done >= 1 THEN {"pairs_train"} ELSE {})
                           \cup (IF done >= 2 THEN {"pairs_test"} ELSE {})
         /\ IF done = 2
            THEN /\ log' = Append(log, Ret("make_train_test"))
                 /\ m_pc' = "main"
                 /\ UNCHANGED m_err
            ELSE /\ MRaise("Error")
                 /\ UNCHANGED log
    /\ n_ctg' = 0
    /\ assembly_idx' = NoSplit
    /\ UNCHANGED <<m_const, io_filt_fasta, todo, learn_entry, cluster_entry>>

\* learn: load_model
LearnLoad ==
    /\ m_pc = "learn_load"
    /\ learn_entry' = Snapshot
    /\ \E ok \in BOOLEAN :
         IF ok
         THEN /\ m_pc' = "learn_check"
              /\ UNCHANGED m_err
         ELSE MRaise("Error")
    /\ UNCHANGED <<m_const, files, io_filt_fasta, todo, log, n_ctg, assembly_idx,
                   cluster_entry>>

\* learn: the checks of the input files and of the pair files
LearnCheck ==
    /\ m_pc = "learn_check"
    /\ IF ~InputsPresent(LearnInputs(features, io_filt_fasta), files)
       THEN MRaise("FileNotFoundError")
       ELSE IF ~PairsPresent(files)
       THEN IF LearnInputs(features, io_filt_fasta) = <<>>
            THEN MRaise("UnboundLocalError")
            ELSE MRaise("FileNotFoundError")
       ELSE /\ m_pc' = "learn_train"
            /\ UNCHANGED m_err
    /\ UNCHANGED <<m_const, files, io_filt_fasta, todo, log, n_ctg, assembly_idx,
                   learn_entry, cluster_entry>>

LearnTrain ==
    /\ m_pc = "learn_train"
    /\ \E ok \in BOOLEAN :
         IF ok
         THEN /\ log' = Append(log, Call("train"))
              /\ m_pc' = "learn_repr"
              /\ UNCHANGED m_err
         ELSE /\ log' = Append(log, Call("train"))
              /\ MRaise("Error")
    /\ UNCHANGED <<m_const, files, io_filt_fasta, todo, n_ctg, assembly_idx,
                   learn_entry, cluster_entry>>

LearnSaveRepr ==
    /\ m_pc = "learn_repr"
    /\ \E ok \in BOOLEAN :
         IF ok
         THEN /\ files' = files \cup {"repr_composition", "repr_coverage"}
              /\ log' = log \o <<Call("save_repr_all"), Ret("learn")>>
              /\ m_pc' = "main"
              /\ UNCHANGED m_err
         ELSE /\ log' = Append(log, Call("save_repr_all"))
              /\ MRaise("Error")
              /\ UNCHANGED files
    /\ UNCHANGED <<m_const, io_filt_fasta, todo, n_ctg, assembly_idx,
                   learn_entry, cluster_entry>>

\* cluster: Configuration.from_yaml and load_model
ClusterLoad ==
    /\ m_pc = "cluster_load"
    /\ cluster_entry' = Snapshot
    /\ \E ok \in BOOLEAN :
         IF ok
         THEN /\ m_pc' = "cluster_check"
              /\ UNCHANGED m_err
         ELSE MRaise("Error")
    /\ UNCHANGED <<m_const, files, io_filt_fasta, todo, log, n_ctg, assembly_idx,
                   learn_entry>>

\* cluster: the check of the latent representations; a miss is logged
ClusterCheck ==
    /\ m_pc = "cluster_check"
    /\ log' = IF ~ReprPresent(files) THEN Append(log, Call("logger.critical")) ELSE log
    /\ m_pc' = "cluster_features"
    /\ UNCHANGED <<m_const, files, io_filt_fasta, todo, m_err, n_ctg, assembly_idx,
                   learn_entry, cluster_entry>>

ClusterFeatures ==
    /\ m_pc = "cluster_features"
    /\ \E ok \in BOOLEAN :
         IF ok
         THEN /\ m_pc' = "cluster_pregraph"
              /\ UNCHANGED m_err
         ELSE MRaise("Error")
    /\ UNCHANGED <<m_const, files, io_filt_fasta, todo, log, n_ctg, assembly_idx,
                   learn_entry, cluster_entry>>

ClusterPregraph ==
    /\ m_pc = "cluster_pregraph"
    /\ \E ok \in BOOLEAN :
         IF ok
         THEN /\ log' = log \o <<Call("make_pregraph"), Ret("make_pregraph")>>
              /\ m_pc' = "cluster_refine"
              /\ UNCHANGED m_err
         ELSE /\ log' = Append(log, Call("make_pregraph"))
              /\ MRaise("Error")
    /\ UNCHANGED <<m_const, files, io_filt_fasta, todo, n_ctg, assembly_idx,
                   learn_entry, cluster_entry>>

ClusterRefine ==
    /\ m_pc = "cluster_refine"
    /\ \E ok \in BOOLEAN :
         IF ok
         THEN /\ log' = log \o <<Call("iterate_clustering"),
                                 Ret("iterate_clustering"), Ret("cluster")>>
              /\ m_pc' = "main"
              /\ UNCHANGED m_err
         ELSE /\ log' = Append(log, Call("iterate_clustering"))
              /\ MRaise("Error")
    /\ UNCHANGED <<m_const, files, io_filt_fasta, todo, n_ctg, assembly_idx,
                   learn_entry, cluster_entry>>

NextMain ==
    \/ MainStart
    \/ MainNext
    \/ Preprocess
    \/ MakeTrainTestSplit
    \/ MakeTrainTestPairs
    \/ LearnLoad
    \/ LearnCheck
    \/ LearnTrain
    \/ LearnSaveRepr
    \/ ClusterLoad
    \/ ClusterCheck
    \/ ClusterFeatures
    \/ ClusterPregraph
    \/ ClusterRefine

SpecMain == InitMain /\ [][NextMain]_vars

(***************************************************************************)
(* Properties of avg_window.                                               *)
(***************************************************************************)
IsConstant(v) == \A i \in 1..Len(v) : v[i] = v[1]
IsPow2(n) == \E k \in 0..LimbBits : n = 2^k
Pow2(e) == [m |-> <<1>>, e |-> e]

\* |v - c| <= c * w * 2^-52, for the integer c
WithinRounding(v, c, w) ==
    LET tol == ExactMul(FromInt(c * w), Pow2(0 - (DoublePrec - 1)))
    IN  /\ FLeq(v, ExactAdd(FromInt(c), tol))
        /\ FLeq(FromInt(c), ExactAdd(v, tol))

\* C1: for a vector of length L >= wsize, avg_window returns exactly
\* ceil((L - wsize + 1) / wstep) values, the conv_shape of get_coverage.
C1_WindowCount ==
    (w_pc # "call" /\ Len(x_in) >= wsize) =>
        /\ x_out.ok
        /\ LET n == Len(x_out.val)
               m == Len(x_in) - wsize + 1
           IN  /\ (n - 1) * wstep < m
               /\ m <= n * wstep
               /\ n = conv_shape(Len(x_in), wsize, wstep)

C1_Witness ==
    /\ w_pc = "returned"
    /\ Len(x_in) >= wsize
    /\ wstep >= 2
    /\ (Len(x_in) - wsize + 1) % wstep # 0
    /\ Len(x_out.val) >= 2

\* C4 as stated: on a constant vector of length L >= wsize every value
\* avg_window returns equals the constant.
C4_ExactConstant ==
    (w_pc = "returned" /\ Len(x_in) >= wsize /\ IsConstant(x_in)) =>
        \A i \in 1..Len(x_out.val) : x_out.val[i] = FromInt(x_in[1])

\* C4 as amended: on a constant vector of read depth c and length
\* L >= wsize every value avg_window returns is within c * wsize * 2^-52
\* of c, and equals c when wsize is a power of two.
C4_ConstantWithinRounding ==
    (w_pc = "returned" /\ Len(x_in) >= wsize /\ IsConstant(x_in)) =>
        \A i \in 1..Len(x_out.val) :
            /\ WithinRounding(x_out.val[i], x_in[1], wsize)
            /\ IsPow2(wsize) => x_out.val[i] = FromInt(x_in[1])

C4_Witness ==
    /\ w_pc = "returned"
    /\ Len(x_in) > wsize
    /\ IsConstant(x_in)
    /\ x_in[1] # 0
    /\ ~IsPow2(wsize)
    /\ \A i \in 1..Len(x_out.val) : x_out.val[i] # FromInt(x_in[1])

\* C5: on a vector shorter than wsize avg_window returns an empty result.
C5_ShortIsEmpty ==
    (w_pc = "returned" /\ Len(x_in) < wsize) => x_out.val = <<>>

(***************************************************************************)
(* Properties of get_coverage.                                             *)
(***************************************************************************)
\* the fragment the loop handled in its k-th iteration, k from 1
Handled(k) == flat[sorted_idx[k] + 1]

\* the windowing of the region [start, end) of frag's contig, as float32
RegionWindow(frag) ==
    [s \in 1..Len(h5data[frag.sp]) |->
        LET win == avg_window(SubSeq(h5data[frag.sp][s], frag.start + 1, frag.end),
                              wsize, wstep, contracted).val
        IN  [c \in 1..Len(win) |-> ToFloat32(win[c])]]

\* C2: within one call the windowing of a (contig, start) key is computed
\* at most once and every later occurrence of the key gets the stored
\* result; the memo starts empty on every call and holds nothing of an
\* earlier batch.
C2_MemoPerBatch ==
    c_pc \in {"loop", "returned"} =>
        /\ \A a, b \in 1..Len(computed) : computed[a] = computed[b] => a = b
        /\ DOMAIN seen = {Key(Handled(k)) : k \in 1..c_i}
        /\ DOMAIN seen = {computed[k] : k \in 1..Len(computed)}
        /\ \A k \in 1..c_i :
               coverage_feature[sorted_idx[k] + 1]
                   = Assigned(seen[Key(Handled(k))], Len(coverage_feature[1][1]))

C2_Witness ==
    /\ c_pc = "returned"
    /\ Len(pairs) >= 2
    /\ Len(computed) >= 2
    /\ Len(computed) < Len(flat)

\* C8: for a batch of same-length fragments, row i of the first array is
\* the windowing of the region of pair i's first fragment and row i of the
\* second array that of pair i's second fragment.
C8_RowsFollowPairs ==
    c_pc = "returned" =>
        \A k \in 1..Len(pairs) :
            /\ FirstRows[k] = RegionWindow(pairs[k][1])
            /\ SecondRows[k] = RegionWindow(pairs[k][2])

C8_Witness ==
    /\ c_pc = "returned"
    /\ Len(pairs) >= 2
    /\ \E k \in 1..Len(sorted_idx) : sorted_idx[k] # k - 1
    /\ Len(computed) < Len(flat)
    /\ \E k \in 1..Len(pairs) : FirstRows[k] # SecondRows[k]

(***************************************************************************)
(* Properties of get_kmer_frequency.                                       *)
(***************************************************************************)
Complement == [c \in {"A", "C", "G", "T"} |->
                  CASE c = "A" -> "T" [] c = "T" -> "A" [] c = "C" -> "G" [] c = "G" -> "C"]

\* the sequence read backwards with A<->T and C<->G
ReverseComplement(sequence) ==
    [n \in 1..Len(sequence) |-> Complement[sequence[Len(sequence) + 1 - n]]]

\* C10: with rc=True every k-mer is counted in the bin of its reverse
\* complement, so a sequence and its reverse complement give the same vector
\* of 4^k/2 counts, which sum to len(sequence) - k + 1.
C10_ReverseComplementBins ==
    (k_pc = "returned" /\ rc_in /\ ~norm_in) =>
        /\ Len(frequencies) = (4^kmer) \div 2
        /\ SumSeq(frequencies) = Len(sequence_in) - kmer + 1
        /\ frequencies
              = get_kmer_frequency(ReverseComplement(sequence_in), <<kmer>>, TRUE, FALSE)

(***************************************************************************)
(* Properties of main, make_train_test, learn and cluster.                 *)
(***************************************************************************)
Called(f) == \E j \in 1..Len(log) : log[j] = Call(f)

StageNames == {"preprocess", "make_train_test", "learn", "make_pregraph",
               "iterate_clustering"}
IsStageCall(e) == e[1] = "call" /\ e[2] \in StageNames
StageCalls == SelectSeq(log, IsStageCall)
StagesRun == [j \in 1..Len(StageCalls) |-> StageCalls[j][2]]

SelectedStages(act) ==
    CASE act = "preprocess" -> <<"preprocess">>
      [] act = "learn" -> <<"make_train_test", "learn">>
      [] act = "cluster" -> <<"make_pregraph", "iterate_clustering">>
      [] OTHER -> <<"preprocess", "make_train_test", "learn", "make_pregraph",
                    "iterate_clustering">>

IsPrefix(s, t) == Len(s) <= Len(t) /\ s = SubSeq(t, 1, Len(s))

RefinerAfterPregraph ==
    \A j \in 1..Len(log) :
        log[j] = Call("iterate_clustering")
            => \E h \in 1..(j - 1) : log[h] = Ret("make_pregraph")

ConfigWrittenFirst == StageCalls # <<>> => log[1] = Call("to_yaml")

\* C7: in every execution of main, once it has ended, the stages that ran are
\* exactly those the action selects, in the fixed order preprocess,
\* make_train_test, learn, make_pregraph, iterate_clustering; the refiner
\* starts only after the pre-graph builder returned, and to_yaml is called
\* before any stage.
C7_ExactlySelected ==
    (entry = "main" /\ m_pc \in {"exit", "error"})
        => /\ StagesRun = SelectedStages(action)
           /\ RefinerAfterPregraph
           /\ ConfigWrittenFirst

\* C7 (amended): in every execution of main the stages started so far are a
\* prefix of the stages the action selects, in the fixed order; when main
\* returns normally they are exactly the selected stages; the refiner starts
\* only after the pre-graph builder returned, and to_yaml is called before any
\* stage.
C7_SelectedPrefixInOrder ==
    entry = "main"
        => /\ IsPrefix(StagesRun, SelectedStages(action))
           /\ (m_pc = "exit" => StagesRun = SelectedStages(action))
           /\ RefinerAfterPregraph
           /\ ConfigWrittenFirst

C7_Witness ==
    /\ entry = "main"
    /\ action = "run"
    /\ m_pc = "exit"
    /\ StagesRun = SelectedStages(action)

LearnRequiredMissing(snap) ==
    \/ "composition" \in features /\ snap.fasta \notin snap.files
    \/ "coverage" \in features /\ "h5" \notin snap.files
    \/ "pairs_train" \notin snap.files
    \/ "pairs_test" \notin snap.files

\* C6: when learn is entered with a required input file absent (the filtered
\* fasta with 'composition' a feature, the h5 with 'coverage' a feature, or a
\* pair file), learn ends with an error before train is called, and neither
\* train nor save_repr_all is called.
C6_MissingInputStopsLearn ==
    (learn_entry.entered /\ LearnRequiredMissing(learn_entry))
        => /\ ~Called("train")
           /\ ~Called("save_repr_all")
           /\ m_pc \in {"learn_check", "error"}

C6_Witness ==
    /\ learn_entry.entered
    /\ "pairs_train" \in learn_entry.files
    /\ "pairs_test" \notin learn_entry.files
    /\ m_pc = "error"
    /\ m_err = "FileNotFoundError"

\* C3: when a latent representation file is missing as cluster starts, the
\* step ends with an error and neither make_pregraph nor iterate_clustering
\* is called.
C3_MissingReprStopsCluster ==
    (cluster_entry.entered /\ ~ReprPresent(cluster_entry.files))
        => /\ ~Called("make_pregraph")
           /\ ~Called("iterate_clustering")
           /\ m_pc \in {"cluster_check", "error"}

\* C9: for n >= 2 contigs the split of make_train_test has no contig in both
\* sets, exactly max(2, int(test_ratio*n)) distinct contigs in the test set
\* and the other n - max(2, int(test_ratio*n)) contigs in the train set.
C9_SplitPartition ==
    (m_pc = "mtt_pairs" /\ n_ctg >= 2)
        => /\ Range(assembly_idx.test) \cap assembly_idx.train = {}
           /\ Cardinality(Range(assembly_idx.test)) = NCtgForTest(test_ratio, n_ctg)
           /\ Cardinality(assembly_idx.train)
                = n_ctg - NCtgForTest(test_ratio, n_ctg)

====
